---------------------------- MODULE Spec2Model ----------------------------
(***************************************************************************)
(* A model of api/index.py: the Flask handler get_satellite_locations,     *)
(* which validates the query parameters of one request, issues one GET to  *)
(* the NASA SSC web service and flattens the nested JSON answer into the   *)
(* parallel lists vertices and labels.                                     *)
(*                                                                         *)
(* One behaviour is one request.  The handler is cut into the steps        *)
(* Validate, BuildRequest, Fetch, Descend, BlockStep (one iteration of the *)
(* loop over satellite blocks up to its inner loop), PointStep (one        *)
(* iteration of the inner loop) and Finish; a step that raises carries out *)
(* the except clause that catches the exception.                           *)
(***************************************************************************)
EXTENDS Integers, Sequences, FiniteSets, TLC

VARIABLES
    request,            \* request.args: the five query parameters
    upstream,           \* what the NASA SSC service does when it is asked
    pc,                 \* the handler's position
    url,                \* the URL and params of line 64-65
    gets,               \* number of calls of requests.get
    data,               \* response.json()
    list_of_satellites, \* the list the outer loop iterates over
    bi,                 \* number of satellite blocks the outer loop has taken
    satellite_id,       \* loop variables of the outer loop body
    x_vals, y_vals, z_vals, min_len,
    i,                  \* the inner loop's index
    vertices, labels,   \* the two output lists
    origin,             \* for each vertex, the <<block, index>> it was read at
    log,                \* the warnings logged by the walk
    response,           \* the value the handler returned
    responses           \* number of times the handler returned

vars == <<request, upstream, pc, url, gets, data, list_of_satellites, bi,
          satellite_id, x_vals, y_vals, z_vals, min_len, i, vertices, labels,
          origin, log, response, responses>>

----------------------------------------------------------------------------
(* Bounds of the model.                                                    *)

\* Longest list of satellite blocks in an upstream body.
MaxSats == 2
\* Longest X, Y or Z value list of a satellite block.
MaxPts == 3

----------------------------------------------------------------------------
(* Characters and strings.  A string the code inspects character by        *)
(* character (a time, a coordinate system) is a sequence of one-character  *)
(* strings.                                                                *)

DigitSeq == <<"0", "1", "2", "3", "4", "5", "6", "7", "8", "9">>
LowerSeq == <<"a", "b", "c", "d", "e", "f", "g", "h", "i", "j", "k", "l", "m",
              "n", "o", "p", "q", "r", "s", "t", "u", "v", "w", "x", "y", "z">>
UpperSeq == <<"A", "B", "C", "D", "E", "F", "G", "H", "I", "J", "K", "L", "M",
              "N", "O", "P", "Q", "R", "S", "T", "U", "V", "W", "X", "Y", "Z">>

Digits == {DigitSeq[k] : k \in 1..10}
DigitVal(c) == (CHOOSE k \in 1..10 : DigitSeq[k] = c) - 1
\* The digits lo..hi as a character class.
D(lo, hi) == {DigitSeq[k + 1] : k \in lo..hi}

\* str.upper() and str.lower() of one character (ASCII letters; every other
\* character of the model's alphabet is unchanged).
UpperChar(c) ==
    IF \E k \in 1..26 : LowerSeq[k] = c
    THEN UpperSeq[CHOOSE k \in 1..26 : LowerSeq[k] = c]
    ELSE c
LowerChar(c) ==
    IF \E k \in 1..26 : UpperSeq[k] = c
    THEN LowerSeq[CHOOSE k \in 1..26 : UpperSeq[k] = c]
    ELSE c
\* str.upper()
Upper(s) == [k \in 1..Len(s) |-> UpperChar(s[k])]

----------------------------------------------------------------------------
(* datetime.strptime(s, "%Y%m%dT%H%M%SZ"), as _strptime carries it out:    *)
(* the format becomes a regular expression, one group per directive, each  *)
(* an ordered alternation; the expression is matched case-insensitively at *)
(* the start of s with backtracking; text left after the match and a date  *)
(* or time out of range are ValueErrors.                                   *)

\* _strptime.TimeRE: the alternatives of a directive, in order, each a
\* sequence of character classes.
Dir_Y == << <<Digits, Digits, Digits, Digits>> >>
Dir_m == << <<{"1"}, D(0, 2)>>, <<{"0"}, D(1, 9)>>, <<D(1, 9)>> >>
Dir_d == << <<{"3"}, D(0, 1)>>, <<D(1, 2), Digits>>, <<{"0"}, D(1, 9)>>,
            <<D(1, 9)>>, <<{" "}, D(1, 9)>> >>
Dir_H == << <<{"2"}, D(0, 3)>>, <<D(0, 1), Digits>>, <<Digits>> >>
Dir_M == << <<D(0, 5), Digits>>, <<Digits>> >>
Dir_S == << <<{"6"}, D(0, 1)>>, <<D(0, 5), Digits>>, <<Digits>> >>
\* A literal character of the format, compiled with re.IGNORECASE.
Lit(c) == << <<{UpperChar(c), LowerChar(c)}>> >>

\* time_format = "%Y%m%dT%H%M%SZ" as the compiled expression.
time_format == <<Dir_Y, Dir_m, Dir_d, Lit("T"), Dir_H, Dir_M, Dir_S, Lit("Z")>>

NoMatch == [ok |-> FALSE, end |-> 0, groups |-> <<>>]

AltMatches(s, pos, alt) ==
    /\ pos + Len(alt) - 1 <= Len(s)
    /\ \A k \in 1..Len(alt) : s[pos + k - 1] \in alt[k]

RECURSIVE MatchFrom(_, _, _, _)
RECURSIVE TryAlts(_, _, _, _, _)
\* The first match, in the order a backtracking matcher tries them, of the
\* elements e.. of pat at position pos of s.
MatchFrom(s, pos, pat, e) ==
    IF e > Len(pat)
    THEN [ok |-> TRUE, end |-> pos - 1, groups |-> <<>>]
    ELSE TryAlts(s, pos, pat, e, 1)
TryAlts(s, pos, pat, e, a) ==
    IF a > Len(pat[e])
    THEN NoMatch
    ELSE LET alt == pat[e][a] IN
         IF AltMatches(s, pos, alt)
         THEN LET rest == MatchFrom(s, pos + Len(alt), pat, e + 1) IN
              IF rest.ok
              THEN [ok |-> TRUE, end |-> rest.end,
                    groups |-> <<SubSeq(s, pos, pos + Len(alt) - 1)>> \o rest.groups]
              ELSE TryAlts(s, pos, pat, e, a + 1)
         ELSE TryAlts(s, pos, pat, e, a + 1)

RECURSIVE IntOf(_)
\* int() of a matched group (a leading blank is ignored).
IntOf(g) ==
    IF g = <<>> THEN 0
    ELSE IF g[Len(g)] = " " THEN IntOf(SubSeq(g, 1, Len(g) - 1))
    ELSE 10 * IntOf(SubSeq(g, 1, Len(g) - 1)) + DigitVal(g[Len(g)])

IsLeap(y) == y % 4 = 0 /\ (y % 100 # 0 \/ y % 400 = 0)
DaysInMonth(y, m) ==
    IF m = 2 THEN (IF IsLeap(y) THEN 29 ELSE 28)
    ELSE IF m \in {4, 6, 9, 11} THEN 30 ELSE 31

\* TRUE when datetime.strptime(s, time_format) returns, FALSE when it raises
\* ValueError.
StrptimeOk(s) ==
    LET m == MatchFrom(s, 1, time_format, 1) IN
    /\ m.ok
    /\ m.end = Len(s)
    /\ LET year  == IntOf(m.groups[1])
           month == IntOf(m.groups[2])
           day   == IntOf(m.groups[3])
           sec   == IntOf(m.groups[7])
       IN  /\ year >= 1
           /\ day <= DaysInMonth(year, month)
           /\ sec <= 59

----------------------------------------------------------------------------
(* JSON values, as response.json() builds them.                            *)

JNull == [t |-> "null"]
\* A number that float() can hold.
JNum(n) == [t |-> "num", n |-> n]
\* An integer literal too large for a float: json yields a Python int of
\* arbitrary size.
JBigInt == [t |-> "bigint"]
JStr(s) == [t |-> "str", s |-> s]
JList(items) == [t |-> "list", items |-> items]
JDict(m) == [t |-> "dict", m |-> m]

\* isinstance(v, list), isinstance(v, dict)
IsList(v) == v.t = "list"
IsDict(v) == v.t = "dict"
\* k in d, for a dict d
HasKey(d, k) == k \in DOMAIN d.m
\* d.get(k, default); AttributeError is not modelled, a non-dict has no key.
DictGet(d, k, default) ==
    IF IsDict(d) /\ HasKey(d, k) THEN d.m[k] ELSE default
\* bool(v)
Truthy(v) ==
    CASE v.t = "null" -> FALSE
      [] v.t = "num"  -> v.n # 0
      [] v.t = "str"  -> v.s # ""
      [] v.t = "list" -> v.items # <<>>
      [] v.t = "dict" -> DOMAIN v.m # {}
      [] OTHER        -> TRUE

\* The strings of the model that float() parses, with their values; float()
\* of any other string of the model raises ValueError.
NumericStrings == {"7"}
FloatOfString(s) == IF s = "7" THEN 7 ELSE 0

\* float(v): the exception it raises ("none" when it returns) and its value.
Float(v) ==
    CASE v.t = "num"    -> [exc |-> "none", val |-> v.n]
      [] v.t = "bigint" -> [exc |-> "OverflowError", val |-> 0]
      [] v.t = "str"    -> IF v.s \in NumericStrings
                           THEN [exc |-> "none", val |-> FloatOfString(v.s)]
                           ELSE [exc |-> "ValueError", val |-> 0]
      [] OTHER          -> [exc |-> "TypeError", val |-> 0]

\* The divisor of lines 129-131.
SCALE == 1000000
\* f / 1e6, kept as the exact fraction.
Scaled(f) == [num |-> f, den |-> SCALE]

----------------------------------------------------------------------------
(* The request's query parameters.                                         *)

\* A parameter the query string does not hold, and one it holds.
Absent == [present |-> FALSE, val |-> <<>>]
Given(s) == [present |-> TRUE, val |-> s]
\* request.args.get(key, default)
ArgsGet(p, default) == IF p.present THEN p.val ELSE default
\* not request.args.get(key): None or the empty string
IsFalsy(p) == ~p.present \/ p.val = <<>>

NASA_SSC_API_URL == "https://sscweb.gsfc.nasa.gov/WS/sscr/2"
DefaultObservatories ==
    <<"a", "c", "e", ",", "w", "i", "n", "d", ",", "g", "o", "e", "s", "1", "7",
      ",", "g", "o", "e", "s", "1", "6">>
DefaultResolutionFactor == <<"5">>
GSE == <<"G", "S", "E">>
supported_systems ==
    {GSE, <<"G", "E", "O">>, <<"G", "S", "M">>, <<"S", "M">>, <<"M", "A", "G">>,
     <<"L", "G", "M">>, <<"R", "T", "N">>, <<"R", "T", "P">>,
     <<"G", "S", "E", "Q">>}

\* ValidateTimes with end_time forgotten.
ValidateTimes_OnlyStart(start_time_str, end_time_str) ==
    IF IsFalsy(start_time_str) THEN "missing"
    ELSE IF ~StrptimeOk(start_time_str.val) THEN "invalid"
    ELSE "ok"

\* Lines 41-51: "missing", "invalid" or "ok".
ValidateTimes(start_time_str, end_time_str) ==
    IF IsFalsy(start_time_str) \/ IsFalsy(end_time_str) THEN "missing"
    ELSE IF ~(StrptimeOk(start_time_str.val) /\ StrptimeOk(end_time_str.val))
    THEN "invalid"
    ELSE "ok"

\* Lines 34 and 57-61: coordinate_system after the check against
\* supported_systems.
CoordinateSystem(p) ==
    LET coordinate_system == ArgsGet(p, GSE) IN
    IF Upper(coordinate_system) \notin supported_systems
    THEN GSE
    ELSE coordinate_system

\* UrlCoordinateSystem without the .upper() of line 64.
UrlCoordinateSystem_NoUpper(p) == CoordinateSystem(p)

\* Line 64: the coordinate system as the URL holds it.
UrlCoordinateSystem(p) == Upper(CoordinateSystem(p))

NoUrl == [base |-> "", observatories |-> <<>>, start |-> <<>>, end |-> <<>>,
          coordinate_system |-> <<>>, resolutionFactor |-> <<>>]
\* Lines 31, 35, 64-65: the URL and its params.
BuildUrl(req) ==
    [base |-> NASA_SSC_API_URL,
     observatories |-> ArgsGet(req.observatories, DefaultObservatories),
     start |-> req.start_time.val,
     end |-> req.end_time.val,
     coordinate_system |-> UrlCoordinateSystem(req.coordinate_system),
     resolutionFactor |-> ArgsGet(req.resolution_factor, DefaultResolutionFactor)]

----------------------------------------------------------------------------
(* What the handler returns: the status and the fields of the JSON body.   *)

NoResponse == [status |-> 0, fields |-> {}, vertices |-> <<>>, labels |-> <<>>]
ErrorResponse(status) ==
    [status |-> status, fields |-> {"error"}, vertices |-> <<>>, labels |-> <<>>]
\* Line 43 and line 51.
MissingTimeResponse == ErrorResponse(400)
InvalidTimeResponse == ErrorResponse(400)
\* NotParsedResponse as a hard error.
NotParsedResponse_Error == ErrorResponse(500)

\* Line 96: the satellite list was not found.
NotParsedResponse ==
    [status |-> 200, fields |-> {"vertices", "labels", "message"},
     vertices |-> <<>>, labels |-> <<>>]
\* Line 152: the walk found no vertex.
NoDataResponse ==
    [status |-> 200, fields |-> {"vertices", "labels", "message"},
     vertices |-> <<>>, labels |-> <<>>]
\* Line 155.
DataResponse(vs, ls) ==
    [status |-> 200, fields |-> {"vertices", "labels"}, vertices |-> vs, labels |-> ls]
\* Line 146.
ParseFailureResponse == ErrorResponse(500)

----------------------------------------------------------------------------
(* The upstream service and requests.get.                                  *)

\* No connection: requests.get raises a RequestException without a response.
ConnectionError == [kind |-> "connection_error", status |-> 0, json |-> FALSE, body |-> JNull]
\* A redirect loop: requests.get raises TooManyRedirects, the last 3xx
\* response attached.
TooManyRedirects(st) == [kind |-> "too_many_redirects", status |-> st, json |-> FALSE, body |-> JNull]
\* A final response with a JSON body, and one whose body is not JSON.
JsonResponse(st, body) == [kind |-> "response", status |-> st, json |-> TRUE, body |-> body]
TextResponse(st) == [kind |-> "response", status |-> st, json |-> FALSE, body |-> JNull]

\* response.raise_for_status() raises HTTPError (line 71: 4xx or 5xx).
RaisesForStatus(st) == 400 <= st /\ st < 600

\* Lines 70-72: the exception the three calls end with ("none" when data is
\* bound), whether the exception carries a response, and that response's
\* status code.
FetchOutcome(up) ==
    CASE up.kind = "connection_error" ->
            [exc |-> "RequestException", has_response |-> FALSE, status_code |-> 0]
      [] up.kind = "too_many_redirects" ->
            [exc |-> "RequestException", has_response |-> TRUE, status_code |-> up.status]
      [] up.kind = "response" /\ RaisesForStatus(up.status) ->
            [exc |-> "RequestException", has_response |-> TRUE, status_code |-> up.status]
      [] up.kind = "response" /\ ~RaisesForStatus(up.status) /\ ~up.json ->
            \* response.json() raises requests' JSONDecodeError, no response attached
            [exc |-> "RequestException", has_response |-> FALSE, status_code |-> 0]
      [] OTHER ->
            [exc |-> "none", has_response |-> TRUE, status_code |-> up.status]

\* FetchErrorStatus that never reads the attached response.
FetchErrorStatus_Always500(outcome) == 500

\* Line 159.
FetchErrorStatus(outcome) ==
    IF outcome.has_response THEN outcome.status_code ELSE 500

----------------------------------------------------------------------------
(* The walk through the upstream body, lines 82-141.                       *)

\* Lines 83-90: the list of satellites, None (JNull) when a step of the
\* descent fails.
ListOfSatellites(d) ==
    IF IsList(d) /\ Len(d.items) > 1
    THEN LET result_data == d.items[2] IN
         IF /\ IsDict(result_data) /\ HasKey(result_data, "Result")
            /\ IsList(result_data.m["Result"])
            /\ Len(result_data.m["Result"].items) > 1
         THEN LET data_section == result_data.m["Result"].items[2] IN
              IF /\ IsDict(data_section) /\ HasKey(data_section, "Data")
                 /\ IsList(data_section.m["Data"])
                 /\ Len(data_section.m["Data"].items) > 1
              THEN data_section.m["Data"].items[2]
              ELSE JNull
         ELSE JNull
    ELSE JNull

\* Line 92.
SatellitesFound(sats) == ~(sats = JNull \/ ~IsList(sats))

\* BlockShapeOk without the isinstance(satellite_block[1], dict) test.
BlockShapeOk_NoDictCheck(satellite_block) ==
    /\ IsList(satellite_block)
    /\ Len(satellite_block.items) > 1

\* Line 101.
BlockShapeOk(satellite_block) ==
    /\ IsList(satellite_block)
    /\ Len(satellite_block.items) > 1
    /\ IsDict(satellite_block.items[2])

UnknownSatellite == JStr("Unknown Satellite")
\* Line 103.
SatelliteId(satellite_details) == DictGet(satellite_details, "Id", UnknownSatellite)

\* Line 107.
CoordinatesOk(coordinates_block) ==
    /\ Truthy(coordinates_block)
    /\ IsList(coordinates_block)
    /\ Len(coordinates_block.items) > 1
    /\ IsList(coordinates_block.items[2])
    /\ Len(coordinates_block.items[2].items) > 0
    /\ IsList(coordinates_block.items[2].items[1])
    /\ Len(coordinates_block.items[2].items[1].items) > 1
    /\ IsDict(coordinates_block.items[2].items[1].items[2])

\* Line 108.
CoordsData(coordinates_block) == coordinates_block.items[2].items[1].items[2]

\* Lines 115-117: the value list of one of X, Y, Z.
AxisVals(vals_block) ==
    IF /\ IsList(vals_block) /\ Len(vals_block.items) > 1
       /\ IsList(vals_block.items[2])
    THEN vals_block.items[2].items
    ELSE <<>>

Min2(a, b) == IF a <= b THEN a ELSE b
\* MinLen that takes the length of X alone.
MinLen_XOnly(xv, yv, zv) == Len(xv)

\* Line 121.
MinLen(xv, yv, zv) == Min2(Len(xv), Min2(Len(yv), Len(zv)))

\* float(vals[k]), k counted from 0; IndexError beyond the list.
FloatAt(vals, k) ==
    IF k < Len(vals) THEN Float(vals[k + 1]) ELSE [exc |-> "IndexError", val |-> 0]

\* TryPoint with the label appended before the conversions.
TryPoint_LabelFirst(vs, ls, xv, yv, zv, k, id) ==
    LET x == FloatAt(xv, k)
        y == FloatAt(yv, k)
        z == FloatAt(zv, k)
        exc == IF x.exc # "none" THEN x.exc
               ELSE IF y.exc # "none" THEN y.exc
               ELSE z.exc
    IN  IF exc = "none"
        THEN [exc |-> "none",
              vertices |-> Append(vs, <<Scaled(x.val), Scaled(y.val), Scaled(z.val)>>),
              labels |-> Append(ls, id)]
        ELSE [exc |-> exc, vertices |-> vs, labels |-> Append(ls, id)]

\* Lines 129-133: the try body for index k.  The exception that ends it
\* ("none" when it runs through) and the two lists after it.
TryPoint(vs, ls, xv, yv, zv, k, id) ==
    LET x == FloatAt(xv, k)
        y == FloatAt(yv, k)
        z == FloatAt(zv, k)
        exc == IF x.exc # "none" THEN x.exc
               ELSE IF y.exc # "none" THEN y.exc
               ELSE z.exc
    IN  IF exc = "none"
        THEN [exc |-> "none",
              vertices |-> Append(vs, <<Scaled(x.val), Scaled(y.val), Scaled(z.val)>>),
              labels |-> Append(ls, id)]
        ELSE [exc |-> exc, vertices |-> vs, labels |-> ls]

\* Line 134: the exceptions the inner except clause catches.
CaughtPerPoint == {"ValueError", "TypeError"}

LogEntry(event, block, index) == [event |-> event, block |-> block, index |-> index]

----------------------------------------------------------------------------
(* The requests of the model.                                              *)

Y2024 == <<"2", "0", "2", "4">>
Midnight == <<"T", "0", "0", "0", "0", "0", "0", "Z">>
\* "20240101T000000Z"
CanonicalTime == Y2024 \o <<"0", "1", "0", "1">> \o Midnight
TimeStrings ==
    { CanonicalTime,
      \* "20240101T010000Z"
      Y2024 \o <<"0", "1", "0", "1", "T", "0", "1", "0", "0", "0", "0", "Z">>,
      \* "2024-01-01T00:00:00Z"
      Y2024 \o <<"-", "0", "1", "-", "0", "1", "T", "0", "0", ":", "0", "0", ":",
                 "0", "0", "Z">>,
      \* "202411T000Z": every field after the year one digit long
      Y2024 \o <<"1", "1", "T", "0", "0", "0", "Z">>,
      \* "2024115T000000Z": a one-digit day
      Y2024 \o <<"1", "1", "5">> \o Midnight,
      \* "20240101t000000z"
      Y2024 \o <<"0", "1", "0", "1", "t", "0", "0", "0", "0", "0", "0", "z">>,
      \* "20240230T000000Z": no such day
      Y2024 \o <<"0", "2", "3", "0">> \o Midnight,
      \* "20240101T000000ZZ"
      CanonicalTime \o <<"Z">>,
      \* "20240101T000060Z"
      Y2024 \o <<"0", "1", "0", "1", "T", "0", "0", "0", "0", "6", "0", "Z">>,
      \* "now"
      <<"n", "o", "w">> }
TimeParams == {Absent, Given(<<>>)} \cup {Given(s) : s \in TimeStrings}

CoordinateParams ==
    { Absent, Given(<<>>), Given(<<"g", "s", "e">>), Given(<<"G", "E", "O">>),
      Given(<<"G", "s", "m">>), Given(<<"x", "y", "z">>), Given(<<"s", "m">>),
      Given(<<"g", "s", "e", "q">>), Given(<<"G", "S">>) }
ObservatoryParams == {Absent, Given(<<"a", "c", "e">>)}
ResolutionParams == {Absent, Given(<<"1", "0">>)}

Requests ==
    [observatories : ObservatoryParams, start_time : TimeParams,
     end_time : TimeParams, coordinate_system : CoordinateParams,
     resolution_factor : ResolutionParams]

\* The request every upstream outcome is tried with: valid times and a
\* coordinate system in lower case, the other parameters left out.
PlainRequests ==
    { [observatories |-> Absent, start_time |-> Given(CanonicalTime),
       end_time |-> Given(CanonicalTime), coordinate_system |-> Given(<<"g", "s", "m">>),
       resolution_factor |-> Absent] }

----------------------------------------------------------------------------
(* The upstream bodies of the model.                                       *)

Meta == JStr("meta")
\* The upstream's [metadata, payload], and the same with a third element.
Env(payload) == JList(<<Meta, payload>>)
Env3(payload) == JList(<<Meta, payload, Meta>>)

Body(sats) == Env(JDict([Result |-> Env(JDict([Data |-> Env(JList(sats))]))]))

Coords(xb, yb, zb) == JDict([X |-> xb, Y |-> yb, Z |-> zb])
CoordinatesBlock(coords) == Env(JList(<<Env(coords)>>))
Details(id, cb) == JDict([Id |-> id, Coordinates |-> cb])
Sat(id, xs, ys, zs) ==
    Env(Details(id, CoordinatesBlock(
        Coords(Env(JList(xs)), Env(JList(ys)), Env(JList(zs))))))
\* d without key k
Without(d, k) == JDict([x \in DOMAIN d.m \ {k} |-> d.m[x]])
Nums(base, n) == [k \in 1..n |-> JNum(base + k)]
IdA == JStr("A")

\* Every combination of lengths of X, Y and Z.
LengthBlocks ==
    {Sat(IdA, Nums(10, lx), Nums(20, ly), Nums(30, lz)) :
        lx \in 0..MaxPts, ly \in 0..MaxPts, lz \in 0..MaxPts}

\* Values that are not plain numbers: float() raises ValueError, TypeError,
\* OverflowError, and parses the last.
OddValues == {JStr("abc"), JNull, JBigInt, JStr("7")}
\* One odd value at one index of one of X, Y, Z.
DefectBlocks ==
    UNION {{ Sat(IdA, [Nums(10, MaxPts) EXCEPT ![k] = v], Nums(20, MaxPts), Nums(30, MaxPts)),
             Sat(IdA, Nums(10, MaxPts), [Nums(20, MaxPts) EXCEPT ![k] = v], Nums(30, MaxPts)),
             Sat(IdA, Nums(10, MaxPts), Nums(20, MaxPts), [Nums(30, MaxPts) EXCEPT ![k] = v]) } :
           k \in 1..MaxPts, v \in OddValues}

\* One of X, Y, Z missing or not [metadata, list].
GoodCoords == Coords(Env(JList(Nums(10, 1))), Env(JList(Nums(20, 1))), Env(JList(Nums(30, 1))))
AxisShapes == {JNull, JList(<<Meta>>), Env(JStr("x")), JList(Nums(10, 2)),
               Env3(JList(Nums(40, 1)))}
AxisBlocks ==
    UNION {{Env(Details(IdA, CoordinatesBlock(Without(GoodCoords, axis))))}
           \cup {Env(Details(IdA, CoordinatesBlock(
                     JDict([GoodCoords.m EXCEPT ![axis] = shape])))) : shape \in AxisShapes} :
           axis \in {"X", "Y", "Z"}}

\* The hops of details["Coordinates"][1][0][1].
CoordinatesShapes ==
    { JNull, JList(<<>>), JList(<<Meta>>), Env(JNull), Env(JList(<<>>)),
      Env(JList(<<JNull>>)), Env(JList(<<JList(<<Meta>>)>>)),
      Env(JList(<<Env(JNull)>>)), Env(GoodCoords),
      Env3(JList(<<Env(GoodCoords)>>)), Env(JList(<<Env3(GoodCoords)>>)),
      Env(JList(<<Env(GoodCoords), JNull>>)) }
CoordinatesBlocks ==
    {Env(Without(Details(IdA, JNull), "Coordinates"))}
    \cup {Env(Details(IdA, cb)) : cb \in CoordinatesShapes}

GoodDetails == Details(IdA, CoordinatesBlock(GoodCoords))
\* Blocks that are not [metadata, details], and Id absent or not a string.
ShapeBlocks ==
    { JNull, JStr("x"), GoodDetails, JList(<<>>), JList(<<Meta>>), Env(JNull),
      Env(JStr("x")), Env(JList(<<>>)), Env3(GoodDetails),
      Env(Without(GoodDetails, "Id")),
      Env(Details(JNull, CoordinatesBlock(GoodCoords))) }

TestBlocks == LengthBlocks \cup DefectBlocks \cup AxisBlocks \cup CoordinatesBlocks
              \cup ShapeBlocks

\* The blocks that stand beside a test block in a list.
Companions ==
    { Sat(JStr("B"), Nums(50, 1), Nums(60, 1), Nums(70, 1)),
      JList(<<Meta>>),
      Env(Without(Details(IdA, CoordinatesBlock(
            Coords(Env(JList(Nums(80, 1))), Env(JList(Nums(90, 1))),
                   Env(JList(Nums(100, 1)))))), "Id")) }

\* The lists of at most MaxSats blocks with a test block at one place and
\* companions at the others.
SatLists ==
    {<<>>} \cup
    UNION {{[k \in 1..n |-> IF k = p THEN t ELSE c[k]] :
                p \in 1..n, t \in TestBlocks, c \in [1..n -> Companions]} :
           n \in 1..MaxSats}

\* Bodies in which the descent to the satellite list fails or meets an
\* envelope of three elements.
OneSat == <<Sat(JStr("B"), Nums(50, 1), Nums(60, 1), Nums(70, 1))>>
DataShapes ==
    { JNull, JList(<<>>), JList(<<Meta>>), Env(JNull), Env(JDict([Id |-> IdA])),
      Env(JStr("x")), Env3(JList(OneSat)) }
ResultShapes ==
    { JNull, JList(<<Meta>>), Env(JNull), Env(JList(<<>>)),
      Env(JDict([StatusCode |-> JStr("x")])), Env3(JDict([Data |-> Env(JList(OneSat))])) }
    \cup {Env(JDict([Data |-> ds])) : ds \in DataShapes}
DescentBodies ==
    { JNull, JNum(1), JStr("x"), JList(<<>>), JList(<<Meta>>), Env(JNull), Env(JList(<<>>)),
      JDict([Result |-> Env(JDict([Data |-> Env(JList(OneSat))]))]),
      Env(JDict([Error |-> JStr("x")])),
      Env3(JDict([Result |-> Env(JDict([Data |-> Env(JList(OneSat))]))])) }
    \cup {Env(JDict([Result |-> rs])) : rs \in ResultShapes}

Bodies == DescentBodies \cup {Body(sats) : sats \in SatLists}

Statuses == {200, 204, 300, 304, 400, 404, 500, 503}
\* A few bodies for the answers of every status.
StatusBodies == {JNull, Env(JDict([Error |-> JStr("x")])), Body(<<>>), Body(OneSat)}

Outcomes ==
    {ConnectionError, TooManyRedirects(302)}
    \cup {TextResponse(st) : st \in Statuses}
    \cup {JsonResponse(st, b) : st \in Statuses, b \in StatusBodies}
    \cup {JsonResponse(200, b) : b \in Bodies}

\* The outcomes every request is tried with.
PlainOutcomes ==
    {ConnectionError, JsonResponse(404, JNull), JsonResponse(300, Body(OneSat)),
     JsonResponse(200, Body(OneSat))}

----------------------------------------------------------------------------
(* The handler's steps.                                                    *)

\* return resp
Return(resp) ==
    /\ response' = resp
    /\ responses' = responses + 1
    /\ pc' = "done"

\* Lines 31-51.
Validate ==
    /\ pc = "start"
    /\ LET v == ValidateTimes(request.start_time, request.end_time) IN
       CASE v = "missing" ->
              /\ Return(MissingTimeResponse)
              /\ log' = log \cup {LogEntry("missing_time", 0, 0)}
         [] v = "invalid" ->
              /\ Return(InvalidTimeResponse)
              /\ log' = log \cup {LogEntry("invalid_time", 0, 0)}
         [] OTHER ->
              /\ pc' = "build"
              /\ UNCHANGED <<response, responses, log>>
    /\ UNCHANGED <<request, upstream, url, gets, data, list_of_satellites, bi,
                   satellite_id, x_vals, y_vals, z_vals, min_len, i, vertices,
                   labels, origin>>

\* Lines 55-66.
BuildRequest ==
    /\ pc = "build"
    /\ url' = BuildUrl(request)
    /\ log' = IF Upper(ArgsGet(request.coordinate_system, GSE)) \notin supported_systems
              THEN log \cup {LogEntry("unsupported_coordinate_system", 0, 0)}
              ELSE log
    /\ pc' = "fetch"
    /\ UNCHANGED <<request, upstream, gets, data, list_of_satellites, bi,
                   satellite_id, x_vals, y_vals, z_vals, min_len, i, vertices,
                   labels, origin, response, responses>>

\* Fetch that calls requests.get once more after a failure.
Fetch_Retry ==
    /\ pc = "fetch"
    /\ gets' = gets + 1
    /\ LET outcome == FetchOutcome(upstream) IN
       IF outcome.exc = "RequestException"
       THEN /\ IF gets = 0
               THEN UNCHANGED <<pc, response, responses>>
               ELSE Return(ErrorResponse(FetchErrorStatus(outcome)))
            /\ UNCHANGED data
       ELSE /\ data' = upstream.body
            /\ pc' = "descend"
            /\ UNCHANGED <<response, responses>>
    /\ UNCHANGED <<request, upstream, url, list_of_satellites, bi, satellite_id,
                   x_vals, y_vals, z_vals, min_len, i, vertices, labels, origin,
                   log>>

\* Lines 68-74, and lines 157-160 when the call raises.
Fetch ==
    /\ pc = "fetch"
    /\ gets' = gets + 1
    /\ LET outcome == FetchOutcome(upstream) IN
       IF outcome.exc = "RequestException"
       THEN /\ Return(ErrorResponse(FetchErrorStatus(outcome)))
            /\ UNCHANGED data
       ELSE /\ data' = upstream.body
            /\ pc' = "descend"
            /\ UNCHANGED <<response, responses>>
    /\ UNCHANGED <<request, upstream, url, list_of_satellites, bi, satellite_id,
                   x_vals, y_vals, z_vals, min_len, i, vertices, labels, origin,
                   log>>

\* Lines 82-96.
Descend ==
    /\ pc = "descend"
    /\ LET sats == ListOfSatellites(data) IN
       IF SatellitesFound(sats)
       THEN /\ list_of_satellites' = sats.items
            /\ pc' = "loop"
            /\ UNCHANGED <<response, responses, log>>
       ELSE /\ Return(NotParsedResponse)
            /\ log' = log \cup {LogEntry("no_satellite_list", 0, 0)}
            /\ UNCHANGED list_of_satellites
    /\ UNCHANGED <<request, upstream, url, gets, data, bi, satellite_id, x_vals,
                   y_vals, z_vals, min_len, i, vertices, labels, origin>>

\* Lines 99-123 and 136-141: the outer loop takes the next block.
BlockStep ==
    /\ pc = "loop"
    /\ bi < Len(list_of_satellites)
    /\ bi' = bi + 1
    /\ LET satellite_block == list_of_satellites[bi + 1] IN
       IF BlockShapeOk(satellite_block)
       THEN LET satellite_details == satellite_block.items[2]
                coordinates_block == DictGet(satellite_details, "Coordinates", JNull)
            IN  /\ satellite_id' = SatelliteId(satellite_details)
                /\ IF CoordinatesOk(coordinates_block)
                   THEN LET coords_data == CoordsData(coordinates_block)
                            xv == AxisVals(DictGet(coords_data, "X", JNull))
                            yv == AxisVals(DictGet(coords_data, "Y", JNull))
                            zv == AxisVals(DictGet(coords_data, "Z", JNull))
                        IN  /\ x_vals' = xv
                            /\ y_vals' = yv
                            /\ z_vals' = zv
                            /\ min_len' = MinLen(xv, yv, zv)
                            /\ IF MinLen(xv, yv, zv) > 0
                               THEN /\ pc' = "points"
                                    /\ i' = 0
                                    /\ UNCHANGED log
                               ELSE /\ log' = log \cup {LogEntry("no_valid_coordinates", bi + 1, 0)}
                                    /\ UNCHANGED <<pc, i>>
                   ELSE /\ log' = log \cup {LogEntry("no_coordinates", bi + 1, 0)}
                        /\ UNCHANGED <<pc, x_vals, y_vals, z_vals, min_len, i>>
       ELSE /\ log' = log \cup {LogEntry("malformed_block", bi + 1, 0)}
            /\ UNCHANGED <<pc, satellite_id, x_vals, y_vals, z_vals, min_len, i>>
    /\ UNCHANGED <<request, upstream, url, gets, data, list_of_satellites,
                   vertices, labels, origin, response, responses>>

\* Lines 124-135, and lines 144-146 when the exception is not caught there.
PointStep ==
    /\ pc = "points"
    /\ i < min_len
    /\ LET r == TryPoint(vertices, labels, x_vals, y_vals, z_vals, i, satellite_id) IN
       /\ vertices' = r.vertices
       /\ labels' = r.labels
       /\ origin' = IF r.exc = "none" THEN Append(origin, <<bi, i>>) ELSE origin
       /\ IF r.exc = "none" \/ r.exc \in CaughtPerPoint
          THEN /\ i' = i + 1
               /\ pc' = IF i + 1 < min_len THEN "points" ELSE "loop"
               /\ log' = IF r.exc = "none" THEN log
                         ELSE log \cup {LogEntry("skipped_point", bi, i)}
               /\ UNCHANGED <<response, responses>>
          ELSE /\ Return(ParseFailureResponse)
               /\ log' = log \cup {LogEntry("parse_error", bi, i)}
               /\ UNCHANGED i
    /\ UNCHANGED <<request, upstream, url, gets, data, list_of_satellites, bi,
                   satellite_id, x_vals, y_vals, z_vals, min_len>>

\* Lines 148-155.
Finish ==
    /\ pc = "loop"
    /\ bi = Len(list_of_satellites)
    /\ IF vertices = <<>>
       THEN Return(NoDataResponse)
       ELSE Return(DataResponse(vertices, labels))
    /\ UNCHANGED <<request, upstream, url, gets, data, list_of_satellites, bi,
                   satellite_id, x_vals, y_vals, z_vals, min_len, i, vertices,
                   labels, origin, log>>

Next ==
    \/ Validate
    \/ BuildRequest
    \/ Fetch
    \/ Descend
    \/ BlockStep
    \/ PointStep
    \/ Finish

\* A request arrives; the lists of line 74 are empty.
Init ==
    /\ \/ request \in Requests /\ upstream \in PlainOutcomes
       \/ request \in PlainRequests /\ upstream \in Outcomes
    /\ pc = "start"
    /\ url = NoUrl
    /\ gets = 0
    /\ data = JNull
    /\ list_of_satellites = <<>>
    /\ bi = 0
    /\ satellite_id = JNull
    /\ x_vals = <<>>
    /\ y_vals = <<>>
    /\ z_vals = <<>>
    /\ min_len = 0
    /\ i = 0
    /\ vertices = <<>>
    /\ labels = <<>>
    /\ origin = <<>>
    /\ log = {}
    /\ response = NoResponse
    /\ responses = 0

Spec == Init /\ [][Next]_vars

----------------------------------------------------------------------------
(* Notions the properties below are stated in.                             *)

\* The time strings of the model that strptime parses.
ParsedTimeStrings == {s \in TimeStrings : StrptimeOk(s)}
\* Both times are present and strptime parses them.
TimesValid ==
    /\ request.start_time.present /\ request.start_time.val \in ParsedTimeStrings
    /\ request.end_time.present /\ request.end_time.val \in ParsedTimeStrings

\* The handler has returned without calling requests.get.
RejectedByValidator == pc = "done" /\ gets = 0

\* YYYYMMDDTHHMMSSZ: sixteen characters, digits but for the T and the Z.
StrictFormat(s) ==
    /\ Len(s) = 16
    /\ \A k \in (1..8) \cup (10..15) : s[k] \in Digits
    /\ s[9] = "T"
    /\ s[16] = "Z"

\* The upstream answered with a JSON body and nothing was raised.
FetchSucceeded ==
    /\ gets = 1
    /\ upstream.kind = "response"
    /\ upstream.json
    /\ ~(400 <= upstream.status /\ upstream.status < 600)

\* The checks of the descent response[1]["Result"][1]["Data"][1].
AtLeastTwo(v) == v.t = "list" /\ Len(v.items) >= 2
DescentHolds(d) ==
    /\ AtLeastTwo(d)
    /\ d.items[2].t = "dict" /\ "Result" \in DOMAIN d.items[2].m
    /\ AtLeastTwo(d.items[2].m["Result"])
    /\ d.items[2].m["Result"].items[2].t = "dict"
    /\ "Data" \in DOMAIN d.items[2].m["Result"].items[2].m
    /\ AtLeastTwo(d.items[2].m["Result"].items[2].m["Data"])
    /\ d.items[2].m["Result"].items[2].m["Data"].items[2].t = "list"

\* The walk over the blocks was ended by an exception.
Aborted == \E e \in log : e.event = "parse_error"
AbortedAt(b) == \E e \in log : e.event = "parse_error" /\ e.block = b

\* The outer loop is through with block b.
BlockFinished(b) ==
    \/ b < bi
    \/ b = bi /\ pc \in {"loop", "done"} /\ ~Aborted

\* Number of vertices read from block b.
VerticesFrom(b) == Cardinality({k \in 1..Len(origin) : origin[k][1] = b})

\* A block [metadata, details, ...] with details a dict, of exactly two
\* elements and of at least two.
IsEnvelopeOfDict(blk) == blk.t = "list" /\ Len(blk.items) = 2 /\ blk.items[2].t = "dict"
HasDictAtOne(blk) == blk.t = "list" /\ Len(blk.items) >= 2 /\ blk.items[2].t = "dict"

\* A block whose Coordinates lead to the dict of X, Y and Z.
WellShaped(blk) ==
    /\ HasDictAtOne(blk)
    /\ CoordinatesOk(DictGet(blk.items[2], "Coordinates", JNull))
AxisField(blk, axis) ==
    DictGet(CoordsData(blk.items[2].m["Coordinates"]), axis, JNull)
\* A field [metadata, list] of exactly two elements, and of at least two.
IsEnvelopeOfList(f) == f.t = "list" /\ Len(f.items) = 2 /\ f.items[2].t = "list"
HasListAtOne(f) == f.t = "list" /\ Len(f.items) >= 2 /\ f.items[2].t = "list"
\* The values of a field, none when it is not an envelope of a list.
FieldVals(f) == IF HasListAtOne(f) THEN f.items[2].items ELSE <<>>
\* min(len(X), len(Y), len(Z)) of a well-shaped block.
BlockMin(blk) ==
    LET lx == Len(FieldVals(AxisField(blk, "X")))
        ly == Len(FieldVals(AxisField(blk, "Y")))
        lz == Len(FieldVals(AxisField(blk, "Z")))
    IN  CHOOSE n \in {lx, ly, lz} : n <= lx /\ n <= ly /\ n <= lz
Converts(v) == v.t = "num" \/ (v.t = "str" /\ v.s \in NumericStrings)
\* The three values of index k (from 0) of a well-shaped block all convert.
PointConverts(blk, k) ==
    \A axis \in {"X", "Y", "Z"} : Converts(FieldVals(AxisField(blk, axis))[k + 1])

----------------------------------------------------------------------------
(* C1: vertices and labels are parallel.  After every step, and in every   *)
(* 200 response, the two lists have the same length, and labels[k] is the  *)
(* Id ("Unknown Satellite" when the block has none) of the satellite block *)
(* whose X, Y and Z values at one index, divided by 1e6, are vertices[k].   *)
C1_ParallelLists ==
    /\ Len(vertices) = Len(labels)
    /\ Len(origin) = Len(vertices)
    /\ \A k \in 1..Len(vertices) :
         LET blk == list_of_satellites[origin[k][1]]
             j == origin[k][2] + 1
             details == blk.items[2].m
             coords == details["Coordinates"].items[2].items[1].items[2].m
         IN  /\ labels[k] = IF "Id" \in DOMAIN details THEN details["Id"]
                            ELSE JStr("Unknown Satellite")
             /\ vertices[k] = <<Scaled(Float(coords["X"].items[2].items[j]).val),
                                Scaled(Float(coords["Y"].items[2].items[j]).val),
                                Scaled(Float(coords["Z"].items[2].items[j]).val)>>
    /\ response.status = 200 =>
         /\ Len(response.vertices) = Len(response.labels)
         /\ response.vertices \in {<<>>, vertices}
         /\ response.labels \in {<<>>, labels}

\* A 200 response with the points of satellite A, one of them skipped, and
\* those of a satellite without Id.
C1_Witness ==
    /\ pc = "done" /\ response.status = 200
    /\ response.vertices = vertices /\ vertices # <<>>
    /\ \E e \in log : e.event = "skipped_point"
    /\ \E j, k \in 1..Len(labels) : labels[j] = IdA /\ labels[k] = UnknownSatellite

(* C2: a request without start_time or end_time (absent or empty) is       *)
(* answered 400 with an error field by the validator, whatever the other   *)
(* parameters are.                                                         *)
C2_MissingTime400 ==
    (pc # "start" /\ (IsFalsy(request.start_time) \/ IsFalsy(request.end_time))) =>
        /\ RejectedByValidator
        /\ response.status = 400
        /\ "error" \in response.fields

\* end_time is absent, start_time is valid and every other parameter given.
C2_Witness ==
    /\ pc = "done" /\ response.status = 400
    /\ ~request.end_time.present
    /\ request.start_time = Given(CanonicalTime)
    /\ request.coordinate_system = Given(<<"x", "y", "z">>)
    /\ request.observatories.present /\ request.resolution_factor.present

(* C3: the times pass validation only if both are exactly YYYYMMDDTHHMMSSZ;*)
(* every other present value is answered 400, and "20240101T000000Z" is    *)
(* accepted.                                                               *)
C3_StrictTimeFormat ==
    (pc # "start" /\ ~IsFalsy(request.start_time) /\ ~IsFalsy(request.end_time)) =>
        /\ ~RejectedByValidator =>
              StrictFormat(request.start_time.val) /\ StrictFormat(request.end_time.val)
        /\ ~(StrictFormat(request.start_time.val) /\ StrictFormat(request.end_time.val)) =>
              RejectedByValidator /\ response.status = 400
        /\ (request.start_time.val = CanonicalTime /\ request.end_time.val = CanonicalTime) =>
              ~RejectedByValidator

(* C4: no value of coordinate_system makes the validator reject a request  *)
(* with valid times, and the coordinate system of the URL is one of the    *)
(* nine supported ones: the supplied value in upper case when that is      *)
(* supported, GSE otherwise.                                               *)
C4_CoordinateSystem ==
    /\ (pc # "start" /\ TimesValid) => ~RejectedByValidator
    /\ (pc = "done" /\ TimesValid) => gets = 1
    /\ pc \notin {"start", "build"} /\ TimesValid =>
         /\ url.coordinate_system \in supported_systems
         /\ url.coordinate_system =
              IF /\ request.coordinate_system.present
                 /\ Upper(request.coordinate_system.val) \in supported_systems
              THEN Upper(request.coordinate_system.val)
              ELSE <<"G", "S", "E">>

\* A supported system in lower case went upstream in upper case.
C4_Witness ==
    /\ gets = 1
    /\ request.coordinate_system = Given(<<"g", "s", "e", "q">>)
    /\ url.coordinate_system = <<"G", "S", "E", "Q">>

\* The failure of the upstream call carries the upstream's response: the
\* HTTPError of a 4xx or 5xx status, the TooManyRedirects of a redirect loop.
ResponseAttached ==
    \/ upstream.kind = "too_many_redirects"
    \/ upstream.kind = "response" /\ 400 <= upstream.status /\ upstream.status < 600

(* C5, as claimed: when the upstream call ends with a connection error or  *)
(* a status that is not 2xx, the response has an error field and a status  *)
(* that is not 200: the upstream's when a response is attached, else 500.  *)
C5_Non2xxIsFailure ==
    (/\ pc = "done" /\ gets = 1
     /\ \/ upstream.kind \in {"connection_error", "too_many_redirects"}
        \/ ~(200 <= upstream.status /\ upstream.status < 300)) =>
        /\ "error" \in response.fields
        /\ response.status # 200
        /\ response.status = IF ResponseAttached THEN upstream.status ELSE 500

(* C5, amended: when the upstream call ends with a connection error, a     *)
(* redirect loop or a 4xx or 5xx status, the response has an error field   *)
(* and a status that is not 200: the upstream's status when a response is  *)
(* attached to the failure, 500 otherwise.                                 *)
C5_TransportFailure ==
    (/\ pc = "done" /\ gets = 1
     /\ \/ upstream.kind \in {"connection_error", "too_many_redirects"}
        \/ (400 <= upstream.status /\ upstream.status < 600)) =>
        /\ "error" \in response.fields
        /\ response.status # 200
        /\ response.status = IF ResponseAttached THEN upstream.status ELSE 500

\* The upstream answered 404 and the handler answers 404.
C5_Witness ==
    /\ pc = "done" /\ gets = 1
    /\ upstream.kind = "response" /\ upstream.status = 404
    /\ response.status = 404 /\ "error" \in response.fields

(* C6: when the upstream call succeeds and a step of the descent fails its *)
(* type or minimum-length check, or the walk completes without a vertex,   *)
(* the handler answers 200 with vertices = [], labels = [] and a message,  *)
(* and no error field.                                                     *)
C6_NoDataIs200 ==
    (/\ pc = "done" /\ FetchSucceeded
     /\ \/ ~DescentHolds(upstream.body)
        \/ ~Aborted /\ vertices = <<>>) =>
        /\ response.status = 200
        /\ response.vertices = <<>> /\ response.labels = <<>>
        /\ "message" \in response.fields
        /\ "error" \notin response.fields

\* The body [meta, {"Result": [meta, {"Data": [meta, []]}]}].
C6_Witness ==
    /\ pc = "done" /\ upstream.status = 200
    /\ upstream.body = Body(<<>>)
    /\ response.status = 200 /\ "message" \in response.fields

(* C7: a value of X, Y or Z at index k that does not convert to a float    *)
(* costs point k alone: the request does not end in a 500, and every index *)
(* below min_len of every well-shaped block whose three values convert     *)
(* yields a vertex, in that block and in the later ones.                   *)
C7_OnlyBadPointSkipped ==
    (pc = "done" /\ FetchSucceeded /\ DescentHolds(upstream.body)) =>
        /\ response.status # 500
        /\ \A b \in 1..Len(list_of_satellites) :
             WellShaped(list_of_satellites[b]) =>
               \A k \in 0..(BlockMin(list_of_satellites[b]) - 1) :
                 PointConverts(list_of_satellites[b], k) =>
                   \E n \in 1..Len(origin) : origin[n] = <<b, k>>

(* C8, as claimed: a well-shaped block yields at most min(len(X), len(Y),  *)
(* len(Z)) vertices, exactly that many when every value below that index   *)
(* converts, and none when X, Y or Z is missing or is not a two-element    *)
(* envelope [metadata, list].                                              *)
C8_TwoElementEnvelope ==
    \A b \in 1..bi :
      LET blk == list_of_satellites[b] IN
      WellShaped(blk) =>
        /\ VerticesFrom(b) <= BlockMin(blk)
        /\ (BlockFinished(b) /\ \A k \in 0..(BlockMin(blk) - 1) : PointConverts(blk, k))
              => VerticesFrom(b) = BlockMin(blk)
        /\ (\E axis \in {"X", "Y", "Z"} : ~IsEnvelopeOfList(AxisField(blk, axis)))
              => VerticesFrom(b) = 0

(* C8, amended: a well-shaped block yields at most min(len(X), len(Y),     *)
(* len(Z)) vertices and, when every value below that index converts, is    *)
(* not cut short and yields exactly that many; it yields none when X, Y or *)
(* Z is missing or is not a list of at least two elements with a list at   *)
(* index 1.                                                                *)
C8_MinLen ==
    \A b \in 1..bi :
      LET blk == list_of_satellites[b] IN
      WellShaped(blk) =>
        /\ VerticesFrom(b) <= BlockMin(blk)
        /\ (\A k \in 0..(BlockMin(blk) - 1) : PointConverts(blk, k)) =>
              /\ ~AbortedAt(b)
              /\ BlockFinished(b) => VerticesFrom(b) = BlockMin(blk)
        /\ (\E axis \in {"X", "Y", "Z"} : ~HasListAtOne(AxisField(blk, axis)))
              => VerticesFrom(b) = 0

\* X and Y of length 3, Z of length 2: exactly 2 points.
C8_Witness ==
    /\ pc = "done" /\ bi = 1
    /\ WellShaped(list_of_satellites[1])
    /\ Len(FieldVals(AxisField(list_of_satellites[1], "X"))) = 3
    /\ Len(FieldVals(AxisField(list_of_satellites[1], "Y"))) = 3
    /\ Len(FieldVals(AxisField(list_of_satellites[1], "Z"))) = 2
    /\ Len(response.vertices) = 2

\* The guard of one of the handler's steps holds: the handler is not stuck.
StepEnabled ==
    \/ pc \in {"start", "build", "fetch", "descend"}
    \/ pc = "loop" /\ bi <= Len(list_of_satellites)
    \/ pc = "points" /\ i < min_len

(* C9: a request gets exactly one response and calls requests.get at most  *)
(* once, after both times passed validation; a request the validator       *)
(* answers 400 never reaches the upstream and a failed call is not         *)
(* repeated.                                                               *)
C9_OneGetOneResponse ==
    /\ gets <= 1
    /\ responses <= 1
    /\ (pc = "done") <=> (responses = 1)
    /\ pc # "done" => StepEnabled
    /\ gets = 1 => TimesValid
    /\ ~TimesValid => gets = 0
    /\ (pc = "done" /\ ~TimesValid) => response.status = 400

\* The connection failed: one call, one response.
C9_Witness ==
    /\ pc = "done" /\ upstream.kind = "connection_error"
    /\ gets = 1 /\ responses = 1 /\ response.status = 500

(* C10, as claimed: a block that is not a two-element envelope [metadata,  *)
(* details] with details a dict is skipped: it yields no vertex and no     *)
(* label and the walk goes on with the next block.                         *)
C10_TwoElementBlock ==
    \A b \in 1..bi :
      (~IsEnvelopeOfDict(list_of_satellites[b]) /\ BlockFinished(b)) =>
        /\ VerticesFrom(b) = 0
        /\ Len(labels) = Len(vertices)
        /\ LogEntry("malformed_block", b, 0) \in log

(* C10, amended: a block that is not a list of at least two elements with  *)
(* a dict at index 1 is skipped: it yields no vertex and no label, and the *)
(* walk goes on with the blocks after it.                                  *)
C10_MalformedBlockSkipped ==
    \A b \in 1..bi :
      ~HasDictAtOne(list_of_satellites[b]) =>
        /\ VerticesFrom(b) = 0
        /\ Len(labels) = Len(vertices)
        /\ LogEntry("malformed_block", b, 0) \in log
        /\ ~AbortedAt(b)
        /\ (bi = b /\ pc # "done") => pc = "loop"
        /\ (bi = b /\ pc = "done") => b = Len(list_of_satellites)

\* A malformed block first, then a satellite whose point is in the answer.
C10_Witness ==
    /\ pc = "done" /\ Len(list_of_satellites) = 2
    /\ ~HasDictAtOne(list_of_satellites[1])
    /\ \E n \in 1..Len(origin) : origin[n][1] = 2
    /\ response.status = 200 /\ response.vertices # <<>>

====
